---- MODULE Spec2Model ----
(***************************************************************************)
(* Model of nextgen4b.process.filter: the read filters (regex, barcode     *)
(* demux, paired-end match, quality, length, alignment cull), the file     *)
(* loader, and filter_sample, which drives them per experiment and logs    *)
(* one CSV row per experiment.                                             *)
(*                                                                         *)
(* Strings are tuples of one-character strings, so that startswith,        *)
(* endswith, find, split and join are computed, not assumed.  A compiled   *)
(* regex is modelled for literal patterns (adapter sequences), which is    *)
(* what the YAML manifests hold.                                           *)
(***************************************************************************)
EXTENDS Integers, Sequences, FiniteSets, TLC

VARIABLES
    pc,        \* position in filter_sample ("unit": a function called on its own)
    f_seqs,    \* forward reads: loaded (line 65), then regex-filtered (line 67)
    pe_seqs,   \* paired-end reads: loaded (line 68), then regex-filtered (line 70)
    bc_seqs,   \* experiment -> reads: demux buckets, overwritten by the results
    ei,        \* index of the loop of line 76 into bcs.keys()
    seqs,      \* working list of the current experiment
    csv_data,  \* the row being built for the current experiment
    csv_log,   \* rows handed to csv_logger.info, as strings
    trace,     \* stage calls made so far: experiment, function, records in, records out
    call,      \* the last function call with its arguments and result
    files,     \* the working directory: file name -> content
    inv,       \* alignment_filter invocations: their locals and position
    dpc,       \* position in barcodeDemux.py's __main__
    di,        \* index of the loop that dpc is in
    coordsToExperiment  \* demuxPEByBarcode's dictionary

vars == <<pc, f_seqs, pe_seqs, bc_seqs, ei, seqs, csv_data, csv_log, trace, call,
          files, inv, dpc, di, coordsToExperiment>>

\* the locals of filter_sample, and those of barcodeDemux.py
fvars == <<pc, f_seqs, pe_seqs, bc_seqs, ei, seqs, csv_data, csv_log, trace, call>>
dvars == <<dpc, di, coordsToExperiment>>

\* ------------------------------------------------------------------ bounds
\* longest forward / paired-end read list loaded by filter_sample
MaxF == 2
MaxPE == 2
\* longest list handed to a filter that is called on its own
MaxUnit == 2
MaxInv == 2

\* ------------------------------------------------------- string primitives
SeqsUpTo(S, n) == UNION {[1..k -> S] : k \in 0..n}

Min(S) == CHOOSE x \in S : \A y \in S : x <= y

Rep(c, n) == [i \in 1..n |-> c]

\* str.startswith / str.endswith
StartsWith(s, p) == Len(p) <= Len(s) /\ SubSeq(s, 1, Len(p)) = p
EndsWith(s, p) == Len(p) <= Len(s) /\ SubSeq(s, Len(s) - Len(p) + 1, Len(s)) = p

\* 0-based start positions >= from at which sub occurs in s
Occ(s, sub, from) ==
    {i \in from..(Len(s) - Len(sub)) : SubSeq(s, i + 1, i + Len(sub)) = sub}

\* str.find: the lowest 0-based index, -1 when there is none
find(s, sub) == IF Occ(s, sub, 0) = {} THEN -1 ELSE Min(Occ(s, sub, 0))

\* str.count of a single character
count(s, c) == Cardinality({i \in 1..Len(s) : s[i] = c})

\* python truth value of an int
Truthy(n) == n # 0

\* re.search(...) on a literal pattern: found or not, and match.end()
re_search(pat, s) == Occ(s, pat, 0) # {}
search_end(pat, s) == Min(Occ(s, pat, 0)) + Len(pat)

\* list(re.finditer(...))[-1].start() on a non-empty literal pattern: matches
\* are taken left to right without overlap
RECURSIVE last_iter_start(_, _, _, _)
last_iter_start(pat, s, from, last) ==
    IF Occ(s, pat, from) = {} THEN last
    ELSE LET m == Min(Occ(s, pat, from))
         IN last_iter_start(pat, s, m + Len(pat), m)

\* str.split(sep) for a one-character sep: the list of fields
RECURSIVE split_from(_, _, _, _)
split_from(s, sep, i, cur) ==
    IF i > Len(s) THEN <<cur>>
    ELSE IF s[i] = sep THEN <<cur>> \o split_from(s, sep, i + 1, <<>>)
    ELSE split_from(s, sep, i + 1, Append(cur, s[i]))
split(s, sep) == split_from(s, sep, 1, <<>>)

\* sep.join(list)
RECURSIVE join(_, _)
join(sep, l) ==
    IF l = <<>> THEN <<>>
    ELSE IF Len(l) = 1 THEN l[1]
    ELSE l[1] \o <<sep>> \o join(sep, Tail(l))

\* str(n) for n >= 0
Digit(d) == <<"0", "1", "2", "3", "4", "5", "6", "7", "8", "9">>[d + 1]
RECURSIVE str(_)
str(n) == IF n < 10 THEN <<Digit(n)>> ELSE str(n \div 10) \o <<Digit(n % 10)>>

\* Seq.reverse_complement
Complement(c) ==
    CASE c = "A" -> "T" [] c = "T" -> "A" [] c = "C" -> "G" [] c = "G" -> "C"
      [] c = "a" -> "t" [] c = "t" -> "a" [] OTHER -> c
reverse_complement(s) == [i \in 1..Len(s) |-> Complement(s[Len(s) + 1 - i])]

\* SeqRecord slicing s[a:b], 0 <= a, b <= len: sequence and per-letter
\* annotations are sliced, id and description are kept
Slice(s, a, b) ==
    [s EXCEPT !.seq = SubSeq(s.seq, a + 1, b), !.qual = SubSeq(s.qual, a + 1, b)]

\* does record r occur in list l
InList(r, l) == \E j \in 1..Len(l) : l[j] = r

\* ------------------------------------------------------- nextgen4b filters
Ext_gz == <<".", "g", "z">>
Ext_fastq == <<".", "f", "a", "s", "t", "q">>

\* load_ngs_file: how the file is opened, or the ValueError; ftype only
\* reaches SeqIO.parse
\* mutant: the extension is compared with the declared format
load_ngs_file_byftype(fpath, ftype) ==
    IF EndsWith(fpath, <<".">> \o ftype \o Ext_gz)
    THEN [raised |-> FALSE, opened |-> "gzip", parse_as |-> ftype]
    ELSE IF EndsWith(fpath, <<".">> \o ftype)
    THEN [raised |-> FALSE, opened |-> "plain", parse_as |-> ftype]
    ELSE [raised |-> TRUE, opened |-> "ValueError", parse_as |-> ftype]

load_ngs_file(fpath, ftype) ==
    IF EndsWith(fpath, Ext_gz) THEN [raised |-> FALSE, opened |-> "gzip", parse_as |-> ftype]
    ELSE IF EndsWith(fpath, Ext_fastq) THEN [raised |-> FALSE, opened |-> "plain", parse_as |-> ftype]
    ELSE [raised |-> TRUE, opened |-> "ValueError", parse_as |-> ftype]

filter_seqs(ss, q_re) == SelectSeq(ss, LAMBDA s : re_search(q_re, s.seq))

\* filter_sample lines 66-70: the regexes applied one after the other
RECURSIVE filter_all(_, _)
filter_all(ss, res) ==
    IF res = <<>> THEN ss ELSE filter_all(filter_seqs(ss, res[1]), Tail(res))

\* mutant: the prefix is compared without regard to case
Upper(c) == CASE c = "a" -> "A" [] c = "c" -> "C" [] c = "g" -> "G" [] c = "t" -> "T" [] OTHER -> c
UpperStr(s) == [i \in 1..Len(s) |-> Upper(s[i])]
barcodeDemux_nocase(ss, bcs) ==
    [e \in DOMAIN bcs |->
       SelectSeq(ss, LAMBDA s : StartsWith(UpperStr(s.seq), UpperStr(bcs[e])))]

barcodeDemux(ss, bcs) ==
    [expt \in DOMAIN bcs |-> SelectSeq(ss, LAMBDA s : StartsWith(s.seq, bcs[expt]))]

get_coords(s) ==
    LET toks == split(split(s.description, " ")[1], ":")
    IN join(":", SubSeq(toks, 4, Len(toks)))

get_copied_seq(s, f_res) ==
    Slice(s, search_end(f_res[1], s.seq), last_iter_start(f_res[2], s.seq, 0, -1))

trim_lig_adapter(s, f_res) == Slice(s, 0, last_iter_start(f_res[2], s.seq, 0, -1))

\* mutant: the record is appended at the coordinate match and again at the
\* sequence match
filter_pe_mismatch_twice(fs, pes, f_res) ==
    LET coord(s) == \E i \in 1..Len(pes) : get_coords(pes[i]) = get_coords(s)
        keep(s) ==
            /\ coord(s)
            /\ Truthy(find(reverse_complement(pes[1].seq), get_copied_seq(s, f_res).seq))
    IN SelectSeq(fs, coord) \o SelectSeq(fs, keep)

\* copied_func is gen_copied_seq_function(f_res), the only one the code builds
filter_pe_mismatch(fs, pes, f_res) ==
    LET pe_coord_list == [i \in 1..Len(pes) |-> get_coords(pes[i])]
        keep(s) ==
            /\ \E i \in 1..Len(pes) : pe_coord_list[i] = get_coords(s)
            /\ Truthy(find(reverse_complement(pes[1].seq), get_copied_seq(s, f_res).seq))
    IN SelectSeq(fs, keep)

\* mutant: a score equal to the cutoff fails
quality_filter_le(ss, q_cutoff) ==
    SelectSeq(ss, LAMBDA s : ~ \E k \in 1..Len(s.qual) : s.qual[k] <= 1 * q_cutoff)

\* mutant: failing records are removed from the list while it is iterated
\* over, so the record after a removed one is skipped
RECURSIVE remove_while_iterating(_, _, _)
remove_while_iterating(ss, i, q_cutoff) ==
    IF i > Len(ss) THEN ss
    ELSE IF \E k \in 1..Len(ss[i].qual) : ss[i].qual[k] < q_cutoff
    THEN remove_while_iterating(SubSeq(ss, 1, i - 1) \o SubSeq(ss, i + 1, Len(ss)),
                                i + 1, q_cutoff)
    ELSE remove_while_iterating(ss, i + 1, q_cutoff)
quality_filter_inplace(ss, q_cutoff) == remove_while_iterating(ss, 1, q_cutoff)

quality_filter(ss, q_cutoff) ==
    SelectSeq(ss, LAMBDA s : ~ \E k \in 1..Len(s.qual) : s.qual[k] < 1 * q_cutoff)

\* mutant: the barcode length is not added to the lower bound
len_filter_nobc(ss, l_cutoff, u_cutoff, l_barcode) ==
    SelectSeq(ss, LAMBDA s : /\ Len(s.seq) >= l_cutoff
                             /\ Len(s.seq) <= u_cutoff + l_barcode)

len_filter(ss, l_cutoff, u_cutoff, l_barcode) ==
    SelectSeq(ss, LAMBDA s : /\ Len(s.seq) >= l_cutoff + l_barcode
                             /\ Len(s.seq) <= u_cutoff + l_barcode)

\* mutant: the lower cutoff is inclusive
cull_alignments_ge(aln_data, lo_cutoff, hi_cutoff) ==
    LET pass(a) == /\ a.score >= lo_cutoff
                   /\ a.score < hi_cutoff
                   /\ ~ (count(a.rows[1].seq, "-") > 0)
        kept == SelectSeq(aln_data, pass)
    IN [i \in 1..Len(kept) |->
          [id |-> kept[i].rows[2].id, seq |-> kept[i].rows[2].seq,
           alnscore |-> kept[i].score]]

cull_alignments(aln_data, lo_cutoff, hi_cutoff) ==
    LET pass(a) == /\ a.score > lo_cutoff
                   /\ a.score < hi_cutoff
                   /\ ~ (count(a.rows[1].seq, "-") > 0)
        kept == SelectSeq(aln_data, pass)
    IN [i \in 1..Len(kept) |->
          [id |-> kept[i].rows[2].id, seq |-> kept[i].rows[2].seq,
           alnscore |-> kept[i].score]]

\* defaults of the signatures
Q_CUTOFF == 20
L_CUTOFF == 40
U_CUTOFF == 200
LO_CUTOFF == 300
HI_CUTOFF == 1000

\* ------------------------------------------------------------ input data
\* a FASTQ header "<inst>:r:f:<lane>:<tile> 1"
Desc(inst, lane, tile) ==
    <<inst, ":", "r", ":", "f", ":", lane, ":", tile, " ", "1">>

Read(id, d, sq, q) == [id |-> id, description |-> d, seq |-> sq, qual |-> q]

\* the run of the manifest: two experiments with overlapping barcodes, the
\* forward adapters (f_filt_seqs) and the reverse adapter (r_filt_seqs)
E1 == <<"e", "1">>
E2 == <<"e", "2">>
ExptOrder == <<E1, E2>>
Bcs == (E1 :> <<"A">>) @@ (E2 :> <<"A", "G">>)
Templates == (E1 :> <<"C", "G">>) @@ (E2 :> <<"C", "A">>)
F_FILT == << <<"C">>, <<"T">> >>
R_FILT == << <<"A">> >>

\* forward reads a file may hold
FwdReads ==
    { Read(1, Desc("m", "1", "7"), <<"A", "C", "G", "T">>, <<25, 30, 20, 2>>),
      Read(2, Desc("m", "1", "8"), <<"A", "G", "C", "A", "T">>, <<30, 30, 30, 18, 30>>),
      Read(3, Desc("n", "1", "7"), <<"a", "C", "G", "T">>, <<30, 30, 30, 30>>),
      Read(4, Desc("m", "1", "7"), <<"A", "A", "A", "A">>, <<30, 30, 30, 30>>),
      Read(5, Desc("m", "1", "8"), <<"A", "G", "C", "G", "T">>, <<30, 30, 30, 30, 30>>) }

\* paired-end reads a file may hold
PeReads ==
    { Read(11, Desc("m", "1", "7"), <<"C", "A">>, <<30, 30>>),
      Read(12, Desc("m", "1", "8"), <<"A", "C">>, <<30, 30>>),
      Read(13, Desc("m", "1", "7"), <<"A", "A">>, <<30, 30>>),
      Read(14, Desc("m", "1", "8"), <<"C", "C">>, <<30, 30>>) }

\* reads that hold both forward adapters: what filter_pe_mismatch is given
AdapterReads == {r \in FwdReads : \A k \in 1..Len(F_FILT) : re_search(F_FILT[k], r.seq)}

\* per-base scores for quality_filter called on its own
QualReads ==
    { Read(21, Desc("m", "1", "7"), <<"A", "C", "G", "T">>, <<25, 30, 18, 22>>),
      Read(22, Desc("m", "1", "7"), <<"A", "C", "G", "T">>, <<25, 30, 20, 22>>),
      Read(23, Desc("m", "1", "7"), <<"A">>, <<20>>),
      Read(24, Desc("m", "1", "7"), <<"A", "C">>, <<19, 30>>),
      Read(25, Desc("m", "1", "7"), <<>>, <<>>) }
QualCutoffs == {Q_CUTOFF, 19, 26}

\* read lengths for len_filter called on its own
LenReads ==
    { Read(30 + n, Desc("m", "1", "7"), Rep("A", n), Rep(30, n)) :
        n \in {0, 42, 43, 45, 200, 203, 204} }
LenParams ==
    { <<l, u, b>> : l \in {L_CUTOFF, 43}, u \in {U_CUTOFF, 44}, b \in {0, 3} }

\* barcode maps for barcodeDemux called on its own
BcMaps ==
    { Bcs,
      (E1 :> <<"A">>) @@ (E2 :> <<"G">>),
      (E1 :> <<>>) @@ (E2 :> <<"a", "C">>) }

\* file names for load_ngs_file, and the formats SeqIO.parse is asked for
Fastq == <<"f", "a", "s", "t", "q">>
Fasta == <<"f", "a", "s", "t", "a">>
Txt == <<"t", "x", "t">>
Gz == <<"g", "z">>
Paths ==
    { <<"r", ".">> \o Fastq, <<"r", ".">> \o Fastq \o <<".">> \o Gz,
      <<"r", ".">> \o Fasta, <<"r", ".">> \o Fasta \o <<".">> \o Gz,
      <<"r", ".">> \o Txt, <<"r", ".">> \o Txt \o <<".">> \o Gz,
      <<"r">> \o Fastq, <<"r", ".">> \o Fastq \o <<".">> \o Txt }
Ftypes == {Fastq, Fasta}

\* what the aligner's report may hold for one query: score, gaps in the
\* template row, length of the aligned query row
AlnScores == {LO_CUTOFF, LO_CUTOFF + 1, HI_CUTOFF - 1, HI_CUTOFF}
AlnUnit == {[score |-> sc, gap |-> g, len |-> 3] : sc \in AlnScores, g \in BOOLEAN}
AlnCutoffs == {<<LO_CUTOFF, HI_CUTOFF>>, <<LO_CUTOFF + 1, HI_CUTOFF - 1>>, <<400, 650>>}

\* one parsed pairwise alignment: row 0 the template, row 1 the query
Alignment(template, a, qid) ==
    [score |-> a.score,
     rows |-> << [id |-> "asis", seq |-> IF a.gap THEN <<"-">> \o template ELSE template],
                 [id |-> qid, seq |-> Rep("A", a.len)] >>]

\* the report of one needle run: one alignment per query sequence
Report(template, choice, qs) ==
    [i \in 1..Len(qs) |-> Alignment(template, choice[i], qs[i].id)]

\* --------------------------------------------- each function on its own
Idle ==
    /\ pc = "unit"
    /\ call = [fn |-> "none"]
    /\ UNCHANGED <<pc, f_seqs, pe_seqs, bc_seqs, ei, seqs, csv_data, csv_log, trace>>
    /\ UNCHANGED <<files, inv, dvars>>

U_load_ngs_file ==
    /\ Idle
    /\ \E fpath \in Paths, ftype \in Ftypes :
         call' = [fn |-> "load_ngs_file", fpath |-> fpath, ftype |-> ftype,
                  out |-> load_ngs_file(fpath, ftype)]

U_filter_seqs ==
    /\ Idle
    /\ \E ss \in SeqsUpTo(FwdReads, MaxUnit), k \in 1..Len(F_FILT) :
         call' = [fn |-> "filter_seqs", in |-> ss, q_re |-> F_FILT[k],
                  out |-> filter_seqs(ss, F_FILT[k])]

U_barcodeDemux ==
    /\ Idle
    /\ \E ss \in SeqsUpTo(FwdReads, MaxUnit), bcs \in BcMaps :
         call' = [fn |-> "barcodeDemux", in |-> ss, bcs |-> bcs,
                  out |-> barcodeDemux(ss, bcs)]

U_filter_pe_mismatch ==
    /\ Idle
    /\ \E fs \in SeqsUpTo(AdapterReads, MaxUnit), pes \in SeqsUpTo(PeReads, MaxUnit) :
         call' = [fn |-> "filter_pe_mismatch", in |-> fs, pe_seqs |-> pes,
                  f_res |-> F_FILT, out |-> filter_pe_mismatch(fs, pes, F_FILT)]

U_quality_filter ==
    /\ Idle
    /\ \E ss \in SeqsUpTo(QualReads, MaxUnit), q \in QualCutoffs :
         call' = [fn |-> "quality_filter", in |-> ss, q_cutoff |-> q,
                  out |-> quality_filter(ss, q)]

U_len_filter ==
    /\ Idle
    /\ \E ss \in SeqsUpTo(LenReads, MaxUnit), p \in LenParams :
         call' = [fn |-> "len_filter", in |-> ss, l_cutoff |-> p[1],
                  u_cutoff |-> p[2], l_barcode |-> p[3],
                  out |-> len_filter(ss, p[1], p[2], p[3])]

U_cull_alignments ==
    /\ Idle
    /\ \E ch \in SeqsUpTo(AlnUnit, MaxUnit), c \in AlnCutoffs :
         LET aln_data == [i \in 1..Len(ch) |-> Alignment(<<"A", "C", "G">>, ch[i], i)]
         IN call' = [fn |-> "cull_alignments", in |-> aln_data, lo_cutoff |-> c[1],
                     hi_cutoff |-> c[2], out |-> cull_alignments(aln_data, c[1], c[2])]

NoCall == [fn |-> "none"]

\* an empty working directory; alignment_filter not called on its own;
\* barcodeDemux.py not run
NoFiles == files = <<>>
NoInvocation == inv = <<>>
NoDemux == dpc = "off" /\ di = 0 /\ coordsToExperiment = <<>>

InitUnit ==
    /\ pc = "unit"
    /\ f_seqs = <<>> /\ pe_seqs = <<>> /\ bc_seqs = <<>> /\ seqs = <<>>
    /\ ei = 0 /\ csv_data = <<>> /\ csv_log = <<>> /\ trace = <<>>
    /\ call = NoCall
    /\ NoFiles /\ NoInvocation /\ NoDemux

NextUnit ==
    \/ U_load_ngs_file
    \/ U_filter_seqs
    \/ U_barcodeDemux
    \/ U_filter_pe_mismatch
    \/ U_quality_filter
    \/ U_len_filter
    \/ U_cull_alignments

SpecUnit == InitUnit /\ [][NextUnit]_vars

\* ------------------------------------------------------------ temp files
\* open(name, 'w') ... write: the file is created or overwritten
write_file(fs, name, content) == (name :> content) @@ fs

\* os.remove(name), for a file that exists
remove_file(fs, name) ==
    IF DOMAIN fs \ {name} = {} THEN <<>> ELSE [n \in DOMAIN fs \ {name} |-> fs[n]]

\* line 280
seqs_f_name == <<"tempseq.fa">>

\* line 289: 'temp_' + str(uuid.uuid4()) + '.needle'
ofilen(u) == <<"temp_">> \o str(u) \o <<".needle">>

\* uuid.uuid4(): a value that no earlier call returned
uuid4(used) == CHOOSE u \in 1..(Cardinality(used) + 1) : u \notin used

\* what a temporary file holds: who wrote it, and the data
Content(by, data) == [by |-> by, data |-> data]

\* what needle wrote to its outfile: a report AlignIO can parse or not
NeedleOut(parsable, aln) == [parsable |-> parsable, aln |-> aln]

\* what alignment_filter leaves on disk when it raises: the query file when
\* needle fails (line 293), the report as well when it cannot be parsed
\* (lines 296-298)
LeftOnRaise(fs, by, ss, u) ==
    { write_file(fs, seqs_f_name, Content(by, ss)),
      write_file(write_file(fs, seqs_f_name, Content(by, ss)),
                 ofilen(u), Content(by, NeedleOut(FALSE, <<>>))) }

\* --------------------------------------------------------- filter_sample
\* what the aligner may report for one query inside filter_sample
AlnPipe ==
    { [score |-> LO_CUTOFF + 1, gap |-> FALSE, len |-> 42],
      [score |-> LO_CUTOFF + 1, gap |-> FALSE, len |-> 40],
      [score |-> LO_CUTOFF, gap |-> FALSE, len |-> 42] }

\* alignment_filter when needle returns normally: the report is parsed and
\* culled with the cutoffs alignment_filter was given
alignment_filter(ss, template, choice) ==
    cull_alignments(Report(template, choice, ss), LO_CUTOFF, HI_CUTOFF)

Entry(expt, fn, nin, nout) == [expt |-> expt, fn |-> fn, nin |-> nin, nout |-> nout]

\* the filter_seqs calls of lines 66-70, as trace entries
RECURSIVE regex_trace(_, _)
regex_trace(ss, res) ==
    IF res = <<>> THEN <<>>
    ELSE <<Entry(<<>>, "filter_seqs", Len(ss), Len(filter_seqs(ss, res[1])))>>
         \o regex_trace(filter_seqs(ss, res[1]), Tail(res))

expt == ExptOrder[ei]

Init ==
    /\ pc = "start"
    /\ f_seqs \in SeqsUpTo(FwdReads, MaxF)
    /\ pe_seqs \in SeqsUpTo(PeReads, MaxPE)
    /\ bc_seqs = <<>> /\ seqs = <<>>
    /\ ei = 0 /\ csv_data = <<>> /\ csv_log = <<>> /\ trace = <<>>
    /\ call = NoCall
    /\ NoFiles /\ NoInvocation /\ NoDemux

\* lines 60-70: compile the regexes, load both files, filter them
LoadAndFilter ==
    /\ pc = "start"
    /\ f_seqs' = filter_all(f_seqs, F_FILT)
    /\ pe_seqs' = filter_all(pe_seqs, R_FILT)
    /\ trace' = trace \o regex_trace(f_seqs, F_FILT) \o regex_trace(pe_seqs, R_FILT)
    /\ pc' = "demux"
    /\ UNCHANGED <<bc_seqs, ei, seqs, csv_data, csv_log, call>>
    /\ UNCHANGED <<files, inv, dvars>>

\* line 73
Demux ==
    /\ pc = "demux"
    /\ bc_seqs' = barcodeDemux(f_seqs, Bcs)
    /\ call' = [fn |-> "barcodeDemux", in |-> f_seqs, bcs |-> Bcs,
                out |-> barcodeDemux(f_seqs, Bcs)]
    /\ trace' = trace \o [i \in 1..Len(ExptOrder) |->
                   Entry(ExptOrder[i], "barcodeDemux", Len(f_seqs),
                         Len(barcodeDemux(f_seqs, Bcs)[ExptOrder[i]]))]
    /\ ei' = 1
    /\ pc' = "expt"
    /\ UNCHANGED <<f_seqs, pe_seqs, seqs, csv_data, csv_log>>
    /\ UNCHANGED <<files, inv, dvars>>

\* lines 76-78: the next experiment of bcs.keys()
StartExpt ==
    /\ pc = "expt" /\ ei <= Len(ExptOrder)
    /\ csv_data' = <<expt, Len(bc_seqs[expt])>>
    /\ pc' = "pe"
    /\ UNCHANGED <<f_seqs, pe_seqs, bc_seqs, ei, seqs, csv_log, trace, call>>
    /\ UNCHANGED <<files, inv, dvars>>

\* lines 82-86: paired-end match, then the ligation adapter is trimmed
PEMatch ==
    /\ pc = "pe"
    /\ LET out == filter_pe_mismatch(bc_seqs[expt], pe_seqs, F_FILT)
       IN /\ call' = [fn |-> "filter_pe_mismatch", in |-> bc_seqs[expt],
                      pe_seqs |-> pe_seqs, f_res |-> F_FILT, out |-> out]
          /\ trace' = Append(trace, Entry(expt, "filter_pe_mismatch",
                                         Len(bc_seqs[expt]), Len(out)))
          /\ csv_data' = Append(csv_data, Len(out))
          /\ seqs' = [i \in 1..Len(out) |-> trim_lig_adapter(out[i], F_FILT)]
    /\ pc' = "quality"
    /\ UNCHANGED <<f_seqs, pe_seqs, bc_seqs, ei, csv_log>>
    /\ UNCHANGED <<files, inv, dvars>>

\* mutant: the quality filter is called without the len(seqs) > 0 test
Quality_unguarded ==
    /\ pc = "quality"
    /\ LET out == quality_filter(seqs, Q_CUTOFF)
       IN /\ seqs' = out
          /\ call' = [fn |-> "quality_filter", in |-> seqs,
                      q_cutoff |-> Q_CUTOFF, out |-> out]
          /\ trace' = Append(trace, Entry(expt, "quality_filter", Len(seqs), Len(out)))
          /\ csv_data' = Append(csv_data, Len(out))
          /\ UNCHANGED bc_seqs
    /\ pc' = "align"
    /\ UNCHANGED <<f_seqs, pe_seqs, ei, csv_log>>
    /\ UNCHANGED <<files, inv, dvars>>

\* lines 89-95
Quality ==
    /\ pc = "quality"
    /\ IF Len(seqs) > 0
       THEN LET out == quality_filter(seqs, Q_CUTOFF)
            IN /\ seqs' = out
               /\ call' = [fn |-> "quality_filter", in |-> seqs,
                           q_cutoff |-> Q_CUTOFF, out |-> out]
               /\ trace' = Append(trace, Entry(expt, "quality_filter", Len(seqs), Len(out)))
               /\ csv_data' = Append(csv_data, Len(out))
               /\ UNCHANGED bc_seqs
       ELSE /\ bc_seqs' = [bc_seqs EXCEPT ![expt] = seqs]
            /\ csv_data' = Append(csv_data, Len(seqs))
            /\ UNCHANGED <<seqs, call, trace>>
    /\ pc' = "align"
    /\ UNCHANGED <<f_seqs, pe_seqs, ei, csv_log>>
    /\ UNCHANGED <<files, inv, dvars>>

\* lines 98-106, needle returning normally (or the stage skipped)
Align ==
    /\ pc = "align"
    /\ IF Len(seqs) > 0
       THEN \E choice \in [1..Len(seqs) -> AlnPipe] :
              LET full_template == Bcs[expt] \o Templates[expt]
                  out == alignment_filter(seqs, full_template, choice)
              IN /\ seqs' = out
                 /\ call' = [fn |-> "alignment_filter", in |-> seqs,
                             template |-> full_template, raised |-> FALSE, out |-> out]
                 /\ trace' = Append(trace, Entry(expt, "alignment_filter",
                                                Len(seqs), Len(out)))
                 /\ csv_data' = Append(csv_data, Len(out))
                 /\ UNCHANGED bc_seqs
       ELSE /\ bc_seqs' = [bc_seqs EXCEPT ![expt] = seqs]
            /\ csv_data' = Append(csv_data, Len(seqs))
            /\ UNCHANGED <<seqs, call, trace>>
    /\ pc' = "length"
    /\ UNCHANGED <<f_seqs, pe_seqs, ei, csv_log>>
    /\ UNCHANGED <<files, inv, dvars>>

\* lines 293-298: needle_cline() raises (non-zero exit of the aligner) or the
\* report cannot be parsed; nothing in alignment_filter or filter_sample
\* catches it, and lines 303-304 are not reached
AlignRaise ==
    /\ pc = "align"
    /\ Len(seqs) > 0
    /\ call' = [fn |-> "alignment_filter", in |-> seqs,
                template |-> Bcs[expt] \o Templates[expt], raised |-> TRUE]
    /\ files' \in LeftOnRaise(files, 0, seqs, uuid4({}))
    /\ pc' = "raised"
    /\ UNCHANGED <<f_seqs, pe_seqs, bc_seqs, ei, seqs, csv_data, csv_log, trace>>
    /\ UNCHANGED <<inv, dvars>>

\* lines 109-115
Length ==
    /\ pc = "length"
    /\ IF Len(seqs) > 0
       THEN LET out == len_filter(seqs, L_CUTOFF, U_CUTOFF, Len(Bcs[expt]))
            IN /\ seqs' = out
               /\ call' = [fn |-> "len_filter", in |-> seqs, l_cutoff |-> L_CUTOFF,
                           u_cutoff |-> U_CUTOFF, l_barcode |-> Len(Bcs[expt]),
                           out |-> out]
               /\ trace' = Append(trace, Entry(expt, "len_filter", Len(seqs), Len(out)))
               /\ csv_data' = Append(csv_data, Len(out))
               /\ UNCHANGED bc_seqs
       ELSE /\ bc_seqs' = [bc_seqs EXCEPT ![expt] = seqs]
            /\ csv_data' = Append(csv_data, Len(seqs))
            /\ UNCHANGED <<seqs, call, trace>>
    /\ pc' = "log"
    /\ UNCHANGED <<f_seqs, pe_seqs, ei, csv_log>>
    /\ UNCHANGED <<files, inv, dvars>>

\* mutant: the count after the length filter is left out of the row
csv_row_five(data) ==
    join(",", [i \in 1..5 |-> IF i = 1 THEN data[i] ELSE str(data[i])])

\* line 117: ','.join([str(n) for n in csv_data])
csv_row(data) ==
    join(",", [i \in 1..Len(data) |-> IF i = 1 THEN data[i] ELSE str(data[i])])

\* lines 117-118: the row is logged, the result stored, the loop goes on
LogRow ==
    /\ pc = "log"
    /\ csv_log' = Append(csv_log, csv_row(csv_data))
    /\ bc_seqs' = [bc_seqs EXCEPT ![expt] = seqs]
    /\ ei' = ei + 1
    /\ pc' = "expt"
    /\ UNCHANGED <<f_seqs, pe_seqs, seqs, csv_data, trace, call>>
    /\ UNCHANGED <<files, inv, dvars>>

\* line 120
Return ==
    /\ pc = "expt" /\ ei > Len(ExptOrder)
    /\ pc' = "done"
    /\ UNCHANGED <<f_seqs, pe_seqs, bc_seqs, ei, seqs, csv_data, csv_log, trace, call>>
    /\ UNCHANGED <<files, inv, dvars>>

Next ==
    \/ LoadAndFilter
    \/ Demux
    \/ StartExpt
    \/ PEMatch
    \/ Quality
    \/ Align
    \/ AlignRaise
    \/ Length
    \/ LogRow
    \/ Return

Spec == Init /\ [][Next]_vars

\* ------------------------------------- alignment_filter, step by step
\* Invocations of alignment_filter that share a working directory; each is
\* followed through its file operations, and the steps of different
\* invocations interleave.
IdleInv == [pc |-> "idle", cleanup |-> TRUE, seqs |-> <<>>, u |-> 0,
            new_seqs |-> <<>>, interfered |-> FALSE]

\* the seqs argument of invocation i
AlnRead(i) == Read(i, Desc("m", "1", "7"), <<"A", "C", "G", "T">>, <<30, 30, 30, 30>>)

\* the template argument
AlnTemplate == Bcs[E1] \o Templates[E1]

\* an invocation between its first file operation and its end
Active(i) == inv[i].pc \notin {"idle", "returned", "raised"}

\* name holds a file that another invocation, still running, wrote
OthersFile(i, name) ==
    /\ name \in DOMAIN files
    /\ files[name].by # i
    /\ Active(files[name].by)

\* the uuids handed out so far
UsedUuids == {inv[j].u : j \in DOMAIN inv} \ {0}

\* what needle may write for the queries qs: a report with every query
\* scored inside the cutoffs, or a file AlignIO cannot parse
NeedleOutcomes(qs) ==
    { NeedleOut(TRUE, Report(AlnTemplate,
                             [k \in 1..Len(qs) |->
                                 [score |-> LO_CUTOFF + 1, gap |-> FALSE, len |-> 42]], qs)),
      NeedleOut(FALSE, <<>>) }

InitAlign ==
    /\ pc = "off"
    /\ f_seqs = <<>> /\ pe_seqs = <<>> /\ bc_seqs = <<>> /\ seqs = <<>>
    /\ ei = 0 /\ csv_data = <<>> /\ csv_log = <<>> /\ trace = <<>>
    /\ call = NoCall
    /\ NoFiles /\ NoDemux
    /\ inv = [i \in 1..MaxInv |-> IdleInv]

\* line 272: the call, with its cleanup argument
AF_Call(i) ==
    /\ inv[i].pc = "idle"
    /\ \E c \in BOOLEAN :
          inv' = [inv EXCEPT ![i] = [@ EXCEPT !.pc = "write", !.cleanup = c,
                                               !.seqs = <<AlnRead(i)>>]]
    /\ UNCHANGED <<files, fvars, dvars>>

\* lines 280-283: open 'tempseq.fa' for writing and write the queries
AF_WriteSeqs(i) ==
    /\ inv[i].pc = "write"
    /\ files' = write_file(files, seqs_f_name, Content(i, inv[i].seqs))
    /\ inv' = [inv EXCEPT ![i] = [@ EXCEPT !.pc = "needle",
                  !.interfered = @ \/ OthersFile(i, seqs_f_name)]]
    /\ UNCHANGED <<fvars, dvars>>

\* lines 289-293: needle reads bsequence = 'tempseq.fa' as it is on disk now
\* and writes its report to outfile = ofilen
AF_Needle(i) ==
    /\ inv[i].pc = "needle"
    /\ seqs_f_name \in DOMAIN files
    /\ LET u == uuid4(UsedUuids)
           qs == files[seqs_f_name].data
       IN \E out \in NeedleOutcomes(qs) :
             /\ files' = write_file(files, ofilen(u), Content(i, out))
             /\ inv' = [inv EXCEPT ![i] = [@ EXCEPT !.pc = "parse", !.u = u,
                           !.interfered = @ \/ OthersFile(i, seqs_f_name)]]
    /\ UNCHANGED <<fvars, dvars>>

\* line 293: needle exits non-zero (always possible; certain when the
\* query file is gone) and needle_cline() raises; no report is written
AF_NeedleRaise(i) ==
    /\ inv[i].pc = "needle"
    /\ inv' = [inv EXCEPT ![i] = [@ EXCEPT !.pc = "raised", !.u = uuid4(UsedUuids)]]
    /\ UNCHANGED <<files, fvars, dvars>>

\* lines 296-301: the report is parsed and culled
AF_Parse(i) ==
    /\ inv[i].pc = "parse"
    /\ files[ofilen(inv[i].u)].data.parsable
    /\ inv' = [inv EXCEPT ![i] = [@ EXCEPT
                  !.new_seqs = cull_alignments(files[ofilen(inv[i].u)].data.aln,
                                               LO_CUTOFF, HI_CUTOFF),
                  !.pc = IF inv[i].cleanup THEN "rm_seqs" ELSE "returned"]]
    /\ UNCHANGED <<files, fvars, dvars>>

\* lines 296-298: the parser raises on the report
AF_ParseRaise(i) ==
    /\ inv[i].pc = "parse"
    /\ ~files[ofilen(inv[i].u)].data.parsable
    /\ inv' = [inv EXCEPT ![i].pc = "raised"]
    /\ UNCHANGED <<files, fvars, dvars>>

\* line 303: os.remove(seqs_f_name); FileNotFoundError when it is gone
AF_RemoveSeqs(i) ==
    /\ inv[i].pc = "rm_seqs"
    /\ IF seqs_f_name \in DOMAIN files
       THEN /\ files' = remove_file(files, seqs_f_name)
            /\ inv' = [inv EXCEPT ![i] = [@ EXCEPT !.pc = "rm_out",
                          !.interfered = @ \/ OthersFile(i, seqs_f_name)]]
       ELSE /\ inv' = [inv EXCEPT ![i].pc = "raised"]
            /\ UNCHANGED files
    /\ UNCHANGED <<fvars, dvars>>

\* lines 304-307: os.remove(ofilen), return new_seqs
AF_RemoveOut(i) ==
    /\ inv[i].pc = "rm_out"
    /\ files' = remove_file(files, ofilen(inv[i].u))
    /\ inv' = [inv EXCEPT ![i].pc = "returned"]
    /\ UNCHANGED <<fvars, dvars>>

NextAlign ==
    \E i \in 1..MaxInv :
        \/ AF_Call(i)
        \/ AF_WriteSeqs(i)
        \/ AF_Needle(i)
        \/ AF_NeedleRaise(i)
        \/ AF_Parse(i)
        \/ AF_ParseRaise(i)
        \/ AF_RemoveSeqs(i)
        \/ AF_RemoveOut(i)

SpecAlign == InitAlign /\ [][NextAlign]_vars

\* --------------------------------------------------- barcodeDemux.py
\* The script's main: demuxByBarcode(yaml, forward file) and then
\* demuxPEByBarcode(yaml, paired-end file), over the files of one directory.
ffname == <<"fwd.fastq">>
pefname == <<"pe.fastq">>
fsuffix == <<"R1">>
pesuffix == <<"R2">>

\* expt + '_' + suffix + '.fastq.gz'
outfilename(e, suffix) == e \o <<"_">> \o suffix \o <<".fastq.gz">>

\* nextgenfilter.loadNGSFileToIterator: the records of the file, in order
loadNGSFileToIterator(fs, name) == fs[name]

\* nextgenfilter.getSeqCoords: the coordinate key of a record
getSeqCoords(s) == get_coords(s)

\* dict.setdefault in place of dict.update: an existing key keeps its value
RECURSIVE dict_update_keepfirst(_, _)
dict_update_keepfirst(d, kvs) ==
    IF kvs = <<>> THEN d
    ELSE dict_update_keepfirst(d @@ (kvs[1][1] :> kvs[1][2]), Tail(kvs))

\* coordsToExperiment.update(pairs): each pair in turn sets its key,
\* replacing the value the key had
RECURSIVE dict_update(_, _)
dict_update(d, kvs) ==
    IF kvs = <<>> THEN d
    ELSE dict_update((kvs[1][1] :> kvs[1][2]) @@ d, Tail(kvs))

InitDemux ==
    /\ pc = "off"
    /\ f_seqs = <<>> /\ pe_seqs = <<>> /\ bc_seqs = <<>> /\ seqs = <<>>
    /\ ei = 0 /\ csv_data = <<>> /\ csv_log = <<>> /\ trace = <<>>
    /\ call = NoCall
    /\ NoInvocation
    /\ \E f \in SeqsUpTo(FwdReads, MaxF), pe \in SeqsUpTo(PeReads, MaxPE) :
          files = (ffname :> f) @@ (pefname :> pe)
    /\ dpc = "forward" /\ di = 1 /\ coordsToExperiment = <<>>

\* demuxByBarcode lines 25-37, one experiment: the reads of the forward file
\* that start with the experiment's barcode go to its R1 file
D_Forward ==
    /\ dpc = "forward"
    /\ LET e == ExptOrder[di]
           bc == Bcs[e]
           fastqf == loadNGSFileToIterator(files, ffname)
       IN files' = write_file(files, outfilename(e, fsuffix),
                              SelectSeq(fastqf, LAMBDA r : StartsWith(r.seq, bc)))
    /\ IF di < Len(ExptOrder)
       THEN di' = di + 1 /\ UNCHANGED dpc
       ELSE di' = 1 /\ dpc' = "coords"
    /\ UNCHANGED <<coordsToExperiment, fvars, inv>>

\* demuxPEByBarcode lines 55-60, one experiment: its R1 file is read back
\* and every record's coordinates are mapped to the experiment
D_Coords ==
    /\ dpc = "coords"
    /\ LET e == ExptOrder[di]
           bcf == loadNGSFileToIterator(files, outfilename(e, fsuffix))
           coords == [k \in 1..Len(bcf) |-> <<getSeqCoords(bcf[k]), e>>]
       IN coordsToExperiment' = dict_update(coordsToExperiment, coords)
    /\ IF di < Len(ExptOrder)
       THEN di' = di + 1 /\ UNCHANGED dpc
       ELSE di' = 1 /\ dpc' = "open_pe"
    /\ UNCHANGED <<files, fvars, inv>>

\* the R2 files of all the experiments, opened for writing
RECURSIVE open_pe_files(_, _)
open_pe_files(fs, i) ==
    IF i > Len(ExptOrder) THEN fs
    ELSE open_pe_files(write_file(fs, outfilename(ExptOrder[i], pesuffix), <<>>), i + 1)

\* lines 65-66
D_OpenPE ==
    /\ dpc = "open_pe"
    /\ files' = open_pe_files(files, 1)
    /\ dpc' = "pe_loop"
    /\ di' = 1
    /\ UNCHANGED <<coordsToExperiment, fvars, inv>>

\* lines 67-72, one paired-end record: written to the R2 file of the
\* experiment its coordinates map to; the KeyError of an unknown coordinate
\* is swallowed by except: pass
D_PESeq ==
    /\ dpc = "pe_loop"
    /\ di <= Len(files[pefname])
    /\ LET seq == loadNGSFileToIterator(files, pefname)[di]
       IN IF getSeqCoords(seq) \in DOMAIN coordsToExperiment
          THEN LET seq_expt == coordsToExperiment[getSeqCoords(seq)]
                   name == outfilename(seq_expt, pesuffix)
               IN files' = write_file(files, name, Append(files[name], seq))
          ELSE UNCHANGED files
    /\ di' = di + 1
    /\ UNCHANGED <<dpc, coordsToExperiment, fvars, inv>>

\* lines 73-74: the loop is over
D_Finish ==
    /\ dpc = "pe_loop"
    /\ di > Len(files[pefname])
    /\ dpc' = "done"
    /\ UNCHANGED <<di, files, coordsToExperiment, fvars, inv>>

NextDemux ==
    \/ D_Forward
    \/ D_Coords
    \/ D_OpenPE
    \/ D_PESeq
    \/ D_Finish

SpecDemux == InitDemux /\ [][NextDemux]_vars



\* ================================================================ claims
\* b is a prefix of sequence sq, letter by letter
IsPrefix(b, sq) == Len(b) <= Len(sq) /\ \A k \in 1..Len(b) : sq[k] = b[k]

\* sub occurs somewhere in s
IsSubstring(sub, s) ==
    \E i \in 0..(Len(s) - Len(sub)) : \A k \in 1..Len(sub) : s[i + k] = sub[k]

\* C1: barcodeDemux puts a record in the bucket of experiment E exactly when
\* its sequence starts with the barcode of E, case-sensitively and for each
\* experiment on its own; every bucket holds input records only.
C1_DemuxByPrefix ==
    call.fn = "barcodeDemux" =>
        /\ DOMAIN call.out = DOMAIN call.bcs
        /\ \A e \in DOMAIN call.bcs :
             /\ \A i \in 1..Len(call.in) :
                  InList(call.in[i], call.out[e]) <=> IsPrefix(call.bcs[e], call.in[i].seq)
             /\ \A j \in 1..Len(call.out[e]) : InList(call.out[e][j], call.in)

\* a call with one record in both buckets and one record in none
C1_Witness ==
    /\ call.fn = "barcodeDemux"
    /\ call.bcs = Bcs
    /\ \E i \in 1..Len(call.in) : \A e \in DOMAIN Bcs : InList(call.in[i], call.out[e])
    /\ \E i \in 1..Len(call.in) : \A e \in DOMAIN Bcs : ~ InList(call.in[i], call.out[e])

\* C2 (as claimed): filter_pe_mismatch keeps a forward record only if some
\* reverse record has its coordinate key and its copied subsequence occurs in
\* the reverse complement of some reverse record.
C2_KeptOnlyIfCopiedFound ==
    call.fn = "filter_pe_mismatch" =>
        \A j \in 1..Len(call.out) :
            /\ \E i \in 1..Len(call.pe_seqs) :
                 get_coords(call.pe_seqs[i]) = get_coords(call.out[j])
            /\ \E i \in 1..Len(call.pe_seqs) :
                 IsSubstring(get_copied_seq(call.out[j], call.f_res).seq,
                             reverse_complement(call.pe_seqs[i].seq))

\* C3: cull_alignments keeps the query of an alignment exactly when the score
\* is strictly between the cutoffs and the template row has no '-'.
C3_CullStrictAndGapFree ==
    call.fn = "cull_alignments" =>
        /\ \A i \in 1..Len(call.in) :
             (\E j \in 1..Len(call.out) : call.out[j].id = call.in[i].rows[2].id)
             <=> /\ call.lo_cutoff < call.in[i].score
                 /\ call.in[i].score < call.hi_cutoff
                 /\ \A k \in 1..Len(call.in[i].rows[1].seq) : call.in[i].rows[1].seq[k] # "-"
        /\ Len(call.out) <= Len(call.in)

\* a gap-free alignment scoring exactly hi_cutoff is dropped next to a kept one
C3_Witness ==
    /\ call.fn = "cull_alignments"
    /\ Len(call.in) = 2 /\ Len(call.out) = 1
    /\ call.in[1].score = call.hi_cutoff
    /\ count(call.in[1].rows[1].seq, "-") = 0
    /\ call.out[1].id = 2

\* C4: quality_filter keeps a record exactly when every per-base score is at
\* least q_cutoff; a score equal to the cutoff passes.
C4_QualityAllAtLeastCutoff ==
    call.fn = "quality_filter" =>
        \A i \in 1..Len(call.in) :
            InList(call.in[i], call.out)
            <=> \A k \in 1..Len(call.in[i].qual) : call.in[i].qual[k] >= call.q_cutoff

\* cutoff 20: scores [25,30,18,22] are dropped and [25,30,20,22] are kept
C4_Witness ==
    /\ call.fn = "quality_filter"
    /\ call.q_cutoff = 20
    /\ Len(call.in) = 2
    /\ call.in[1].qual = <<25, 30, 18, 22>>
    /\ call.in[2].qual = <<25, 30, 20, 22>>
    /\ call.out = <<call.in[2]>>

\* C5: len_filter keeps a record exactly when
\* l_cutoff + l_barcode <= len(sequence) <= u_cutoff + l_barcode.
C5_LengthWindowInclusive ==
    call.fn = "len_filter" =>
        \A i \in 1..Len(call.in) :
            InList(call.in[i], call.out)
            <=> /\ call.l_cutoff + call.l_barcode <= Len(call.in[i].seq)
                /\ Len(call.in[i].seq) <= call.u_cutoff + call.l_barcode

\* min 40, max 200, barcode 3: 42 bases are dropped, 43 bases are kept
C5_Witness ==
    /\ call.fn = "len_filter"
    /\ call.l_cutoff = 40 /\ call.u_cutoff = 200 /\ call.l_barcode = 3
    /\ Len(call.in) = 2
    /\ Len(call.in[1].seq) = 42
    /\ Len(call.in[2].seq) = 43
    /\ call.out = <<call.in[2]>>

\* ---- the audit trail of filter_sample
\* int(s) for a string of digits
RECURSIVE int(_)
int(s) ==
    IF s = <<>> THEN 0
    ELSE 10 * int(SubSeq(s, 1, Len(s) - 1))
         + (CHOOSE d \in 0..9 : Digit(d) = s[Len(s)])

Fields(i) == split(csv_log[i], ",")

\* the count a stage function returned for experiment e; 0 when it was not called
Returned(e, fn) ==
    IF \E k \in 1..Len(trace) : trace[k].expt = e /\ trace[k].fn = fn
    THEN trace[CHOOSE k \in 1..Len(trace) : trace[k].expt = e /\ trace[k].fn = fn].nout
    ELSE 0

Called(e, fn) == \E k \in 1..Len(trace) : trace[k].expt = e /\ trace[k].fn = fn

\* C6: the counts recorded for an experiment never increase from one stage to
\* the next, in the row being built and in every logged row, and every call
\* of a filter stage returns at most as many records as it was given.
C6_CountsNeverIncrease ==
    /\ \A i \in 2..(Len(csv_data) - 1) : csv_data[i + 1] <= csv_data[i]
    /\ \A r \in 1..Len(csv_log) :
         LET f == Fields(r)
         IN \A i \in 2..(Len(f) - 1) : int(f[i + 1]) <= int(f[i])
    /\ \A k \in 1..Len(trace) : trace[k].nout <= trace[k].nin
    /\ call.fn \in {"filter_pe_mismatch", "quality_filter", "len_filter"}
         => Len(call.out) <= Len(call.in)
    /\ (call.fn = "alignment_filter" /\ ~ call.raised) => Len(call.out) <= Len(call.in)

\* a finished experiment whose counts fall from 2 reads to 1
C6_Witness ==
    /\ pc = "log"
    /\ Len(csv_data) = 6
    /\ csv_data[2] = 2
    /\ csv_data[4] = 1
    /\ csv_data[6] = 1

\* the stage functions that follow fn in filter_sample
After(fn) ==
    CASE fn = "barcodeDemux" ->
           {"filter_pe_mismatch", "quality_filter", "alignment_filter", "len_filter"}
      [] fn = "filter_pe_mismatch" -> {"quality_filter", "alignment_filter", "len_filter"}
      [] fn = "quality_filter" -> {"alignment_filter", "len_filter"}
      [] fn = "alignment_filter" -> {"len_filter"}
      [] OTHER -> {}

\* once a count of the row is 0 the counts after it are 0
ZerosStay(row) == \A i \in 2..Len(row) : row[i] = 0 => \A j \in i..Len(row) : row[j] = 0

\* a logged row with a 0 among its counts after demux, PE match, quality or
\* alignment ends in 0s and the stored result of its experiment is empty
EmptyResults ==
    \A r \in 1..Len(csv_log) :
        LET f == Fields(r)
            row == [i \in 1..Len(f) |-> IF i = 1 THEN 0 - 1 ELSE int(f[i])]
        IN (\E i \in 2..5 : row[i] = 0) => /\ ZerosStay(row)
                                           /\ bc_seqs[ExptOrder[r]] = <<>>

\* C7 (as claimed): once demux, PE match, quality or alignment yields an empty
\* list for an experiment, no later stage function is called for it, the
\* later counts are 0 and its result is empty.
C7_NoLaterStageCalled ==
    /\ \A k \in 1..Len(trace) :
         (trace[k].expt # <<>> /\ trace[k].nout = 0)
           => \A fn \in After(trace[k].fn) : ~ Called(trace[k].expt, fn)
    /\ ZerosStay(csv_data)
    /\ EmptyResults

\* C7 (amended): as claimed for PE match, quality and alignment; after an
\* empty demux bucket filter_pe_mismatch is still called, on the empty bucket,
\* and returns the empty list, and no stage function after it is called.
C7_NoLaterStageButPEMatch ==
    /\ \A k \in 1..Len(trace) :
         (trace[k].expt # <<>> /\ trace[k].nout = 0)
           => /\ \A fn \in After(trace[k].fn) \ {"filter_pe_mismatch"} :
                   ~ Called(trace[k].expt, fn)
              /\ \A m \in 1..Len(trace) :
                   (trace[m].expt = trace[k].expt /\ trace[m].fn \in After(trace[k].fn))
                     => trace[m].nin = 0 /\ trace[m].nout = 0
    /\ ZerosStay(csv_data)
    /\ EmptyResults

\* the run has returned; the second experiment had an empty bucket and
\* filter_pe_mismatch was called for it; the first lost its last read in the
\* alignment filter and len_filter was not called for it
C7_Witness ==
    /\ pc = "done"
    /\ Returned(E2, "barcodeDemux") = 0
    /\ Called(E2, "filter_pe_mismatch")
    /\ Returned(E1, "quality_filter") > 0
    /\ Called(E1, "alignment_filter")
    /\ Returned(E1, "alignment_filter") = 0
    /\ ~ Called(E1, "len_filter")
    /\ bc_seqs[E1] = <<>> /\ bc_seqs[E2] = <<>>

\* the six values of the row of experiment e, from what the stages returned
ExpectedRow(e) ==
    <<e, str(Returned(e, "barcodeDemux")), str(Returned(e, "filter_pe_mismatch")),
      str(Returned(e, "quality_filter")), str(Returned(e, "alignment_filter")),
      str(Returned(e, "len_filter"))>>

\* experiments whose csv_logger.info call has been reached
Completed == IF ei = 0 THEN 0 ELSE ei - 1

\* C8 (as claimed): one row per experiment, of the five fields experiment ID
\* and counts after demux, PE match, quality and alignment.
C8_OneRowOfFiveFields ==
    /\ Len(csv_log) = Completed
    /\ \A r \in 1..Len(csv_log) : Fields(r) = SubSeq(ExpectedRow(ExptOrder[r]), 1, 5)

\* C8 (amended): one row per experiment whose stages have completed, in
\* bcs.keys() order, joining six values: the experiment ID and the counts
\* after demux, PE match, quality, alignment and length filter.
C8_OneRowOfSixFields ==
    /\ Len(csv_log) = Completed
    /\ \A r \in 1..Len(csv_log) : Fields(r) = ExpectedRow(ExptOrder[r])

\* both experiments are logged and the first kept a read to the end
C8_Witness ==
    /\ pc = "done"
    /\ Len(csv_log) = Len(ExptOrder)
    /\ Len(bc_seqs[E1]) = 1
    /\ Fields(1)[2] = <<"2">>
    /\ Fields(1)[6] = <<"1">>

\* C9: applying a filter stage again to its own output, with the same
\* parameters, removes nothing more.
C9_FilterTwiceIsFilterOnce ==
    /\ call.fn = "filter_seqs" => filter_seqs(call.out, call.q_re) = call.out
    /\ call.fn = "barcodeDemux" =>
         \A e \in DOMAIN call.bcs : barcodeDemux(call.out[e], call.bcs)[e] = call.out[e]
    /\ call.fn = "filter_pe_mismatch" =>
         filter_pe_mismatch(call.out, call.pe_seqs, call.f_res) = call.out
    /\ call.fn = "quality_filter" => quality_filter(call.out, call.q_cutoff) = call.out
    /\ call.fn = "len_filter" =>
         len_filter(call.out, call.l_cutoff, call.u_cutoff, call.l_barcode) = call.out

\* a quality filter that was given two failing reads, and returned none
C9_Witness ==
    /\ call.fn = "quality_filter"
    /\ Len(call.in) = 2
    /\ \A i \in 1..2 : \E k \in 1..Len(call.in[i].qual) : call.in[i].qual[k] < call.q_cutoff
    /\ call.out = <<>>

\* the file name ends in the raw or the gzip-compressed form of ftype
NamedAsFormat(fpath, ftype) ==
    \/ EndsWith(fpath, <<".">> \o ftype)
    \/ EndsWith(fpath, <<".">> \o ftype \o <<".", "g", "z">>)

\* the last n characters of a file name
Suffix(fpath, n) == SubSeq(fpath, Len(fpath) - n + 1, Len(fpath))

\* C10 (as claimed): load_ngs_file raises exactly when the file name has
\* neither the raw nor the compressed extension of the declared format.
C10_RaisesUnlessNamedAsFormat ==
    call.fn = "load_ngs_file" =>
        (call.out.raised <=> ~ NamedAsFormat(call.fpath, call.ftype))

\* C10 (amended): load_ngs_file raises exactly when the file name ends in
\* neither ".gz" nor ".fastq", whatever the declared format; otherwise the
\* file is opened and parsed as the declared format.
C10_RaisesUnlessGzOrFastq ==
    call.fn = "load_ngs_file" =>
        /\ call.out.raised <=>
             ~ \/ (Len(call.fpath) >= 3 /\ Suffix(call.fpath, 3) = <<".", "g", "z">>)
               \/ (Len(call.fpath) >= 6
                     /\ Suffix(call.fpath, 6) = <<".", "f", "a", "s", "t", "q">>)
        /\ ~ call.out.raised => call.out.parse_as = call.ftype

\* a ".fasta" file declared as fasta is refused
C10_Witness ==
    /\ call.fn = "load_ngs_file"
    /\ call.ftype = Fasta
    /\ call.fpath = <<"r", ".">> \o Fasta
    /\ call.out.raised

\* C11 (as claimed): when the processing of one experiment raises, the other
\* experiments of the run are still processed and each gets its CSV row.
C11_SiblingsStillProcessed ==
    pc = "raised" =>
        \A i \in 1..Len(ExptOrder) :
            i # ei => /\ Called(ExptOrder[i], "filter_pe_mismatch")
                      /\ \E r \in 1..Len(csv_log) : Fields(r)[1] = ExptOrder[i]

\* C12 (as claimed): an invocation with cleanup=True that has ended, by return
\* or by an exception, has left no temporary file on disk (stated for an
\* invocation that ran alone, so every file on disk is its own).
C12_NoTempFileOnAnyExit ==
    \A i \in DOMAIN inv :
        ( /\ inv[i].cleanup
          /\ inv[i].pc \in {"returned", "raised"}
          /\ \A j \in DOMAIN inv \ {i} : inv[j].pc = "idle" )
        => DOMAIN files = {}

\* the temporary file names invocation i uses while it runs
TempNames(i) ==
    {seqs_f_name} \cup (IF inv[i].u = 0 THEN {} ELSE {ofilen(inv[i].u)})

\* C13 (as claimed): two running invocations share no temporary file name,
\* and no invocation has overwritten, read or deleted a temporary file that
\* another running invocation wrote.
C13_NamesUniquePerInvocation ==
    \A i \in DOMAIN inv :
        /\ ~inv[i].interfered
        /\ \A j \in DOMAIN inv \ {i} :
              (Active(i) /\ Active(j) /\ inv[i].pc # "write" /\ inv[j].pc # "write")
              => TempNames(i) \cap TempNames(j) = {}

Max(S) == CHOOSE x \in S : \A y \in S : y <= x

R1(i) == files[outfilename(ExptOrder[i], fsuffix)]
R2(i) == files[outfilename(ExptOrder[i], pesuffix)]

\* the experiments, by position in the processing order, whose R1 file holds
\* a forward read with the coordinate key of s
Matching(s) ==
    {i \in 1..Len(ExptOrder) :
        \E r \in 1..Len(R1(i)) : getSeqCoords(R1(i)[r]) = getSeqCoords(s)}

\* C14: when both demultiplexing passes are over, every record of an R2 file
\* is a paired-end read whose coordinate key occurs in the R1 file of that
\* experiment, and that experiment is the last processed one among those whose
\* R1 file holds the key (so the read is in no other R2 file); a paired-end
\* read whose key is in no R1 file is in no R2 file, and every read with a
\* match, also one that follows an unmatched read, is in its R2 file.
C14_PEReadToLastMatchingExperiment ==
    dpc = "done" =>
        /\ \A i \in 1..Len(ExptOrder) : \A k \in 1..Len(R2(i)) :
              /\ InList(R2(i)[k], files[pefname])
              /\ i \in Matching(R2(i)[k])
              /\ i = Max(Matching(R2(i)[k]))
        /\ \A k \in 1..Len(files[pefname]) :
              LET s == files[pefname][k]
              IN IF Matching(s) = {}
                 THEN \A i \in 1..Len(ExptOrder) : ~InList(s, R2(i))
                 ELSE InList(s, R2(Max(Matching(s))))

\* both passes are over; the first paired-end read had no match and was
\* dropped, the second has its key in the R1 files of both experiments and
\* is in the R2 file of the second experiment only
C14_Witness ==
    /\ dpc = "done"
    /\ Len(files[pefname]) = 2
    /\ Matching(files[pefname][1]) = {}
    /\ Matching(files[pefname][2]) = {1, 2}
    /\ R2(1) = <<>>
    /\ R2(2) = <<files[pefname][2]>>

====
